---- MODULE Spec2Model ----
(***************************************************************************)
(* Project Kronos: the zenith kernel writer (bin.minutemedusa), its        *)
(* centi-arcsecond quantisation, and the hour-to-minute expander           *)
(* (bin.expand) with its cubic interpolation, the locator that finds the   *)
(* record closest to a time (bin/paraboladb), and the parallel generator   *)
(* of house patterns (bin/projectatlas).                                   *)
(*                                                                         *)
(* Angles of the writer are f64 degrees.  They are modelled as integers    *)
(* counting "fine units": Sub fine units make one centi-arcsecond          *)
(* (1/360000 degree).  One fine unit stands for the spacing of the doubles *)
(* in [128,256) degrees; the doubles in [256,512) are twice as far apart,  *)
(* and so on binade by binade (FGrid), so that the rounding of an f64      *)
(* addition is part of the model (FRound).                                 *)
(***************************************************************************)
EXTENDS Integers, Sequences, FiniteSets, TLC

\* ------------------------------------------------------------------ bounds
\* fine units per centi-arcsecond (the resolution of the modelled doubles)
Sub == 4
\* half-width, in fine units, of the windows of raw angles the codec is tried on
Window == 9

\* bodies per record (the program tracks 20; every loop over them is uniform)
NumBodies == 2
\* longest generated range, in half intervals of the chosen precision
MaxHalfSteps == 4
\* JD resolution: representable instants per minute
TicksPerMinute == 2
\* angle units per degree of the positions the expander interpolates
AngleRes == 10
\* steps t = k/InterpSteps at which cubic_interpolate is tried on its own
InterpSteps == 12
\* most f64 values after the base JD in a source kernel of the expander
MaxValues == 3
\* most records in a kernel the locator reads
MaxSamples == 3
\* how far outside the kernel's range, in ticks, a queried time may lie
Margin == 3
\* most locations load_cities finds, most threads of the rayon pool, and
\* house systems generated (the program has 8; its loop over them is uniform)
MaxLocations == 3
MaxThreads == 2
NumSystems == 2

\* ------------------------------------------------------- program constants
\* MINUTES_PER_DAY; JD_MINUTE = 1.0 / MINUTES_PER_DAY
MINUTES_PER_DAY == 1440
\* TimePrec::Hour => JD_MINUTE * 60.0
MinutesPerHour == 60
\* pos * 3600.0 * 100.0: centi-arcseconds per degree
CentisecPerDegree == 360000
\* rem_euclid(360.0)
DegreesPerCircle == 360
\* the first binade whose doubles are coarser than one fine unit: 2^8 degrees
CoarseFromDegrees == 256
\* for minute in 0..60; t = minute as f64 / 60.0
MinutesPerHourExpanded == 60
\* the wrap-around threshold of cubic_interpolate: 180.0
HalfCircleDegrees == 180

Full == DegreesPerCircle * CentisecPerDegree * Sub
Coarse == CoarseFromDegrees * CentisecPerDegree * Sub

Abs(x) == IF x < 0 THEN -x ELSE x

\* ------------------------------------------------------------ f64 rounding
\* spacing of the doubles around v, in fine units
FGrid(v) ==
  IF Abs(v) < Coarse THEN 1
  ELSE IF Abs(v) < 2 * Coarse THEN 2
  ELSE IF Abs(v) < 4 * Coarse THEN 4
  ELSE 8

\* v rounded to the nearest double, ties to the even significand
FRound(v) ==
  LET g == FGrid(v)
      m == Abs(v)
      lo == (m \div g) * g
      hi == lo + g
      r == IF m - lo < hi - m THEN lo
           ELSE IF m - lo > hi - m THEN hi
           ELSE IF (lo \div g) % 2 = 0 THEN lo ELSE hi
  IN IF v < 0 THEN -r ELSE r

\* the f64 % operator: remainder with the sign of the dividend (exact)
FRem(x, m) == IF x >= 0 THEN x % m ELSE -((-x) % m)

\* f64::rem_euclid(360.0):  r = x % 360; if r < 0 { r + 360 } else { r }
rem_euclid(x) ==
  LET r == FRem(x, Full)
  IN IF r < 0 THEN FRound(r + Full) ELSE r

\* (pos * 3600.0 * 100.0) as u32: the cast truncates toward zero
CentisecRounded(pos) == (2 * pos + Sub) \div (2 * Sub)
CentisecArcsecFirst(pos) == (pos \div (Sub * 100)) * 100
centisec(pos) == pos \div Sub

\* the value the writer stores for a raw oracle angle (lines 133-135)
encode(x) == centisec(rem_euclid(x))

\* decode of the kernel format: degrees = packed / (3600 * 100), in fine units
decode(packed) == packed * Sub

VARIABLES cpc, craw, cpacked,
          start_jd, time_delta, precision, wpc, wi, winterval, base_positions,
          kernel, published0, oracleFailures, werr,
          epc, src_bodies, minute_kernel, base_jd, first_hour, total_hours,
          hour, minute, h0, h1, h2, h3,
          ipc, ipos, ik, iresult, iprevious,
          rpc, target_jd, house_file, offset, closest_offset, closest_diff,
          timestamp, rpositions, sample_interval,
          apc, locations, threads, system, todo, in_call, raced, collected,
          patterns,
          zodiac_mode, sid_ayanamsa, ayanamsa_values, row, printed,
          dpc, systems_left, original, pending, unique_patterns, deduplicated,
          lpc, lines, self_locations

cvars == <<cpc, craw, cpacked>>
wctl == <<start_jd, time_delta, precision, wpc, wi, winterval, base_positions,
          oracleFailures, werr>>
files == <<kernel, published0>>
wvars == <<wctl, files>>
evars == <<epc, src_bodies, minute_kernel, base_jd, first_hour, total_hours,
           hour, minute, h0, h1, h2, h3>>
ivars == <<ipc, ipos, ik, iresult, iprevious>>
rvars == <<rpc, target_jd, house_file, offset, closest_offset, closest_diff,
           timestamp, rpositions, sample_interval>>
avars == <<apc, locations, threads, system, todo, in_call, raced, collected,
           patterns>>
svars == <<zodiac_mode, sid_ayanamsa, ayanamsa_values, row, printed>>
dvars == <<dpc, systems_left, original, pending, unique_patterns, deduplicated>>
lvars == <<lpc, lines, self_locations>>
vars == <<cvars, wvars, evars, ivars, rvars, avars, svars, dvars, lvars>>

\* ------------------------------------------------------------ the oracle
Bodies == 1..NumBodies

\* swe_calc_ut(t, body): the longitude xx[0] it returns when it succeeds; not
\* normalised, and different for every (t, body) of a run
OracleAngle(t, b) == FRound((b - 1) * 200000003 + t * 90001 - 7)

\* ------------------------------------------------------------ kernel files
\* a file is the sequence of the values written to it, each with its width
Field(k, v) == [k |-> k, v |-> v]
FieldSize(f) ==
  CASE f.k = "magic" -> 4
    [] f.k = "u8" -> 1
    [] f.k = "f64" -> 8
    [] f.k = "u32" -> 4
    [] f.k = "raw" -> f.v

\* the sum of the widths, taken by halves
RECURSIVE FileSize(_)
FileSize(data) ==
  IF data = <<>> THEN 0
  ELSE IF Len(data) = 1 THEN FieldSize(data[1])
  ELSE LET half == Len(data) \div 2
       IN FileSize(SubSeq(data, 1, half))
          + FileSize(SubSeq(data, half + 1, Len(data)))

NoFile == [exists |-> FALSE, data |-> <<>>]
FileOf(data) == [exists |-> TRUE, data |-> data]

\* TimePrec as u8
PrecisionByte(p) == CASE p = "Minute" -> 0 [] p = "Hour" -> 1 [] p = "Day" -> 2

\* TimePrec::to_jd, in ticks
to_jd(p) ==
  CASE p = "Minute" -> TicksPerMinute
    [] p = "Hour" -> TicksPerMinute * MinutesPerHour
    [] p = "Day" -> TicksPerMinute * MINUTES_PER_DAY

\* (time_delta / precision.to_jd()).ceil() as u32: the cast saturates at 0
Intervals(delta, p) ==
  IF delta <= 0 THEN 0 ELSE (delta + to_jd(p) - 1) \div to_jd(p)

\* the five header writes of ZenithKernel::write
HeaderField(n) ==
  CASE n = 1 -> Field("magic", "ZNTH")
    [] n = 2 -> Field("u8", 1)
    [] n = 3 -> Field("u8", PrecisionByte(precision))
    [] n = 4 -> Field("f64", start_jd)
    [] n = 5 -> Field("f64", time_delta)
HeaderFields == 5
HeaderSize == 4 + 1 + 1 + 8 + 8
RecordSize == NumBodies * 4

\* ------------------------------------------------------ cubic_interpolate
\* Positions are integers, AngleRes to the degree.  For t = k/n the result is
\* returned exactly, as the numerator of a fraction over InterpDen(n).
InterpDen(n) == 2 * n * n * n
InterpFull == DegreesPerCircle * AngleRes
InterpHalf == HalfCircleDegrees * AngleRes

\* if p > 180.0 { p -= 360.0; } else if p < -180.0 { p += 360.0; }
WrapDeltaNone(p) == p
WrapDelta(p) ==
  IF p > InterpHalf THEN p - InterpFull
  ELSE IF p < -InterpHalf THEN p + InterpFull
  ELSE p

\* twice the coefficients a, b, c, d of lines 22-25
CoefA2(p0, pos1, p2, p3) == -p0 + 3 * p2 - 3 * pos1 + p3
CoefB2(p0, pos1, p2, p3) == 2 * p0 - 5 * p2 + 4 * pos1 - p3
CoefC2(p0, p2) == -p0 + p2
CoefD2(pos1) == 2 * pos1

\* (a*t3 + b*t2 + c*t + d).rem_euclid(360.0) at t = k/n
cubic_interpolate(pos0, pos1, pos2, pos3, k, n) ==
  LET p0 == WrapDelta(pos0 - pos1)
      p2 == WrapDelta(pos2 - pos1)
      p3 == WrapDelta(pos3 - pos1)
      result == CoefA2(p0, pos1, p2, p3) * k * k * k
                + CoefB2(p0, pos1, p2, p3) * k * k * n
                + CoefC2(p0, p2) * k * n * n
                + CoefD2(pos1) * n * n * n
  IN result % (InterpFull * InterpDen(n))

\* a whole number of angle units as a result over InterpDen(n)
Exactly(units, n) == units * InterpDen(n)

\* ------------------------------------------------------------- codec runs
\* raw angles: windows around 0, +-180, +-360 and 720 degrees, kept to the
\* values that are doubles
RawCentres == {0, Full \div 2, Full, 2 * Full, -(Full \div 2), -Full}
RawAngles ==
  {v \in UNION {{c + d : d \in -Window..Window} : c \in RawCentres} :
     FRound(v) = v}

CodecIdle == cpc = "idle" /\ craw = 0 /\ cpacked = 0

WriterIdle ==
  /\ start_jd = 0 /\ time_delta = 0 /\ precision = "Minute"
  /\ wpc = "idle" /\ wi = 1 /\ winterval = 0
  /\ base_positions = [b \in Bodies |-> 0]
  /\ kernel = NoFile /\ published0 = NoFile
  /\ oracleFailures = {} /\ werr = [body |-> -1]

ExpandIdle ==
  /\ epc = "idle" /\ src_bodies = 1 /\ minute_kernel = NoFile /\ base_jd = 0
  /\ first_hour = <<>> /\ total_hours = 0 /\ hour = 0 /\ minute = 0
  /\ h0 = <<>> /\ h1 = <<>> /\ h2 = <<>> /\ h3 = <<>>

InterpIdle ==
  /\ ipc = "idle" /\ ipos = <<0, 0, 0, 0>> /\ ik = 0
  /\ iresult = 0 /\ iprevious = 0

ReaderIdle ==
  /\ rpc = "idle" /\ target_jd = 0 /\ house_file = "missing" /\ offset = 0
  /\ closest_offset = 0 /\ closest_diff = 0 /\ timestamp = 0
  /\ rpositions = <<>> /\ sample_interval = 0

AtlasIdle ==
  /\ apc = "idle" /\ locations = 0 /\ threads = 1
  /\ system = 1 /\ todo = {} /\ in_call = <<>>
  /\ raced = {} /\ collected = <<>> /\ patterns = <<>>

SiderealIdle ==
  /\ zodiac_mode = "Tropical" /\ sid_ayanamsa = <<0, 0, 0>>
  /\ ayanamsa_values = <<0, 0, 0>> /\ row = 0 /\ printed = <<>>

DedupIdle ==
  /\ dpc = "idle" /\ systems_left = {} /\ original = <<>> /\ pending = <<>>
  /\ unique_patterns = {} /\ deduplicated = <<>>

CitiesIdle == lpc = "idle" /\ lines = <<>> /\ self_locations = <<>>

CodecInit ==
  /\ SiderealIdle /\ DedupIdle /\ CitiesIdle
  /\ cpc = "raw" /\ craw \in RawAngles /\ cpacked = 0
  /\ WriterIdle /\ ExpandIdle /\ InterpIdle /\ ReaderIdle /\ AtlasIdle

\* one oracle value is normalised and quantised
Encode ==
  /\ cpc = "raw"
  /\ cpacked' = encode(craw)
  /\ cpc' = "packed"
  /\ UNCHANGED <<craw, wvars, evars, ivars, rvars, avars,
                 svars, dvars, lvars>>

CodecNext == Encode

CodecSpec == CodecInit /\ [][CodecNext]_vars

\* ------------------------------------------- the writer: ZenithKernel
Precisions == {"Minute", "Hour", "Day"}
Starts == {0, 3}

\* a kernel published by an earlier run: header and one record
OldKernel ==
  FileOf(<<Field("magic", "ZNTH"), Field("u8", 1), Field("u8", 2),
           Field("f64", 0), Field("f64", 0)>>
         \o [b \in Bodies |-> Field("u32", b)])

Init ==
  /\ SiderealIdle /\ DedupIdle /\ CitiesIdle
  /\ CodecIdle /\ ExpandIdle /\ InterpIdle /\ ReaderIdle /\ AtlasIdle
  /\ start_jd \in Starts
  /\ precision \in Precisions
  /\ time_delta \in {k * (to_jd(precision) \div 2) : k \in -1..MaxHalfSteps}
  /\ wpc = "new" /\ wi = 1 /\ winterval = 0
  /\ base_positions = [b \in Bodies |-> 0]
  /\ kernel \in {NoFile, OldKernel}
  /\ published0 = kernel
  /\ oracleFailures = {} /\ werr = [body |-> -1]

\* ZenithKernel::new, one body of the loop: the base position at start_jd,
\* or the early return Err("Failed to calculate position for body i")
NewCalc ==
  /\ wpc = "new"
  /\ \E ok \in BOOLEAN :
       IF ok
       THEN /\ base_positions' =
                 [base_positions EXCEPT ![wi] = rem_euclid(OracleAngle(start_jd, wi))]
            /\ IF wi < NumBodies
               THEN wi' = wi + 1 /\ wpc' = "new"
               ELSE wi' = 1 /\ wpc' = "create"
            /\ UNCHANGED <<oracleFailures, werr>>
       ELSE /\ wpc' = "new_failed"
            /\ werr' = [body |-> wi - 1]
            /\ oracleFailures' = oracleFailures \cup {<<start_jd, wi>>}
            /\ UNCHANGED <<base_positions, wi>>
  /\ UNCHANGED <<start_jd, time_delta, precision, winterval, kernel, published0,
                 cvars, evars, ivars, rvars, avars,
                 svars, dvars, lvars>>

\* File::create("zenith.kernel"): the published path is truncated in place
WriteCreate ==
  /\ wpc = "create"
  /\ kernel' = FileOf(<<>>)
  /\ wpc' = "header" /\ wi' = 1
  /\ UNCHANGED <<start_jd, time_delta, precision, winterval, base_positions,
                 published0, oracleFailures, werr, cvars, evars, ivars, rvars, avars,
                 svars, dvars, lvars>>

\* the header, one write_all at a time
WriteHeader ==
  /\ wpc = "header"
  /\ kernel' = FileOf(Append(kernel.data, HeaderField(wi)))
  /\ IF wi < HeaderFields
     THEN wi' = wi + 1 /\ wpc' = "header"
     ELSE wi' = 1 /\ wpc' = "base"
  /\ UNCHANGED <<start_jd, time_delta, precision, winterval, base_positions,
                 published0, oracleFailures, werr, cvars, evars, ivars, rvars, avars,
                 svars, dvars, lvars>>

\* the base positions, one write_all at a time; then the interval count
WriteBase ==
  /\ wpc = "base"
  /\ kernel' = FileOf(Append(kernel.data, Field("u32", centisec(base_positions[wi]))))
  /\ IF wi < NumBodies
     THEN wi' = wi + 1 /\ wpc' = "base"
     ELSE /\ wi' = 1
          /\ wpc' = IF Intervals(time_delta, precision) > 0 THEN "loop" ELSE "finish"
  /\ winterval' = 0
  /\ UNCHANGED <<start_jd, time_delta, precision, base_positions,
                 published0, oracleFailures, werr, cvars, evars, ivars, rvars, avars,
                 svars, dvars, lvars>>

\* one body of one interval: the oracle at current_jd; its position is
\* written when it succeeds and nothing is written when it fails.  The
\* oracle answers alike for the same (t, body): what succeeded in new()
\* succeeds again.
WriteCalc ==
  /\ wpc = "loop"
  /\ LET current_jd == start_jd + winterval * to_jd(precision)
     IN \E ok \in BOOLEAN :
          /\ (current_jd = start_jd) => ok
          /\ IF ok
             THEN /\ kernel' = FileOf(Append(kernel.data,
                                   Field("u32", encode(OracleAngle(current_jd, wi)))))
                  /\ UNCHANGED oracleFailures
             ELSE /\ oracleFailures' = oracleFailures \cup {<<current_jd, wi>>}
                  /\ UNCHANGED kernel
  /\ IF wi < NumBodies
     THEN wi' = wi + 1 /\ UNCHANGED <<winterval, wpc>>
     ELSE /\ wi' = 1
          /\ winterval' = winterval + 1
          /\ wpc' = IF winterval + 1 < Intervals(time_delta, precision)
                    THEN "loop" ELSE "finish"
  /\ UNCHANGED <<start_jd, time_delta, precision, base_positions, published0,
                 werr, cvars, evars, ivars, rvars, avars,
                 svars, dvars, lvars>>

\* std::fs::metadata, the summary, Ok(())
WriteFinish ==
  /\ wpc = "finish"
  /\ wpc' = "done"
  /\ UNCHANGED <<start_jd, time_delta, precision, wi, winterval, base_positions,
                 kernel, published0, oracleFailures, werr, cvars, evars, ivars, rvars, avars,
                 svars, dvars, lvars>>

\* any file operation of write() returns its io::Error through `?`
WriteIoError ==
  /\ wpc \in {"create", "header", "base", "loop", "finish"}
  /\ wpc' = "io_failed"
  /\ UNCHANGED <<start_jd, time_delta, precision, wi, winterval, base_positions,
                 kernel, published0, oracleFailures, werr, cvars, evars, ivars, rvars, avars,
                 svars, dvars, lvars>>

Next ==
  \/ NewCalc
  \/ WriteCreate
  \/ WriteHeader
  \/ WriteBase
  \/ WriteCalc
  \/ WriteFinish
  \/ WriteIoError

Spec == Init /\ [][Next]_vars

\* ------------------------------------------------ the expander: bin.expand
\* A source kernel is the base JD and f64 positions, then perhaps the bytes
\* of a cut-off value.  The file does not say how many bodies a record has:
\* src_bodies remembers what its writer meant, and the expander never reads it.
SourceDegrees == {0, 10, 20, 30}
SourceAngles == {d * AngleRes : d \in SourceDegrees}
SourceJD == 5

RECURSIVE SeqsUpTo(_, _)
SeqsUpTo(S, n) ==
  IF n = 0 THEN {<<>>}
  ELSE LET shorter == SeqsUpTo(S, n - 1)
       IN shorter \cup {Append(q, x) : q \in {r \in shorter : Len(r) = n - 1}, x \in S}

F64Fields(vals) == [i \in 1..Len(vals) |-> Field("f64", vals[i])]

SourceKernels ==
  {NoFile, FileOf(<<Field("raw", 4)>>)}
  \cup {FileOf(<<Field("f64", SourceJD)>> \o F64Fields(vals) \o tail) :
          vals \in SeqsUpTo(SourceAngles, MaxValues),
          tail \in {<<>>, <<Field("raw", 4)>>}}

\* the f64 values read_exact can read after the first eight bytes
ValuesOf(data) ==
  LET other == {i \in 1..Len(data) : data[i].k # "f64"}
      whole == IF other = {} THEN Len(data)
               ELSE (CHOOSE i \in other : \A j \in other : i <= j) - 1
  IN [i \in 1..whole |-> data[i].v]
PositionsOf(data) == IF data = <<>> THEN <<>> ELSE ValuesOf(Tail(data))

\* read_hour_positions: num_bodies values from 8 + hour_offset*num_bodies*8;
\* a value that cannot be read repeats the one pushed before it, or is 0.0
RECURSIVE read_positions_upto(_, _, _, _)
read_positions_upto(vals, hour_offset, num_bodies, i) ==
  IF i = 0 THEN <<>>
  ELSE LET positions == read_positions_upto(vals, hour_offset, num_bodies, i - 1)
           at == hour_offset * num_bodies + i
       IN Append(positions,
                 IF at <= Len(vals) THEN vals[at]
                 ELSE IF positions # <<>> THEN positions[Len(positions)]
                 ELSE 0)
read_hour_positions(data, hour_offset, num_bodies) ==
  read_positions_upto(PositionsOf(data), hour_offset, num_bodies, num_bodies)

\* the paths of File::open (line 63) and File::create (line 88)
SourcePath == "zenith.kernel"
OutputPathOfSource == "zenith.kernel"
OutputPath == "zenith.minute"

\* the output file takes new contents; so does the source when both paths
\* name one file
WriteOutput(data) ==
  /\ minute_kernel' = FileOf(data)
  /\ kernel' = IF OutputPath = SourcePath THEN FileOf(data) ELSE kernel

ExpandInit ==
  /\ SiderealIdle /\ DedupIdle /\ CitiesIdle
  /\ CodecIdle /\ InterpIdle /\ ReaderIdle /\ AtlasIdle
  /\ start_jd = 0 /\ time_delta = 0 /\ precision = "Minute"
  /\ wpc = "idle" /\ wi = 1 /\ winterval = 0
  /\ base_positions = [b \in Bodies |-> 0]
  /\ oracleFailures = {} /\ werr = [body |-> -1]
  /\ kernel \in SourceKernels
  /\ published0 = kernel
  /\ src_bodies \in {n \in 1..MaxValues :
                       Len(PositionsOf(kernel.data)) % n = 0
                       /\ (n = 1 \/ n <= Len(PositionsOf(kernel.data)))}
  /\ epc = "load" /\ minute_kernel = NoFile /\ base_jd = 0
  /\ first_hour = <<>> /\ total_hours = 0 /\ hour = 0 /\ minute = 0
  /\ h0 = <<>> /\ h1 = <<>> /\ h2 = <<>> /\ h3 = <<>>

\* lines 63-80: open, size, base JD, every remaining value as the "first
\* hour", and the hour count (whose division panics on a kernel of no value)
ExpandLoad ==
  /\ epc = "load"
  /\ IF ~kernel.exists \/ FileSize(kernel.data) < 8
     THEN /\ epc' = "failed"
          /\ UNCHANGED <<base_jd, first_hour, total_hours>>
     ELSE /\ base_jd' = Head(kernel.data).v
          /\ first_hour' = PositionsOf(kernel.data)
          /\ IF Len(first_hour') = 0
             THEN epc' = "panicked" /\ UNCHANGED total_hours
             ELSE /\ total_hours' =
                       (FileSize(kernel.data) - 8) \div (8 * Len(first_hour'))
                  /\ epc' = "create"
  /\ UNCHANGED <<src_bodies, minute_kernel, hour, minute, h0, h1, h2, h3,
                 cvars, wvars, ivars, rvars, avars,
                 svars, dvars, lvars>>

\* lines 88-89: File::create("zenith.minute") and the base JD
ExpandCreate ==
  /\ epc = "create"
  /\ WriteOutput(<<Field("f64", base_jd)>>)
  /\ hour' = 0
  /\ epc' = IF 0 < total_hours THEN "hour" ELSE "finish"
  /\ UNCHANGED <<src_bodies, base_jd, first_hour, total_hours, minute,
                 h0, h1, h2, h3, cvars, wctl, published0, ivars, rvars, avars,
                 svars, dvars, lvars>>

\* lines 94-107: the four hours around `hour`
ExpandReadHours ==
  /\ epc = "hour"
  /\ LET num_bodies == Len(first_hour)
     IN /\ h0' = IF hour > 0
                 THEN read_hour_positions(kernel.data, hour - 1, num_bodies)
                 ELSE first_hour
        /\ h1' = IF hour = 0
                 THEN first_hour
                 ELSE read_hour_positions(kernel.data, hour, num_bodies)
        /\ h2' = read_hour_positions(kernel.data, hour + 1, num_bodies)
        /\ h3' = read_hour_positions(kernel.data, hour + 2, num_bodies)
  /\ minute' = 0
  /\ epc' = "minute"
  /\ UNCHANGED <<src_bodies, minute_kernel, base_jd, first_hour, total_hours,
                 hour, cvars, wvars, ivars, rvars, avars,
                 svars, dvars, lvars>>

\* lines 110-120: one minute, every body interpolated and written
ExpandWriteMinute ==
  /\ epc = "minute"
  /\ WriteOutput(minute_kernel.data \o
                 [i \in 1..Len(first_hour) |->
                    Field("f64", cubic_interpolate(h0[i], h1[i], h2[i], h3[i],
                                                   minute, MinutesPerHourExpanded))])
  /\ IF minute + 1 < MinutesPerHourExpanded
     THEN minute' = minute + 1 /\ UNCHANGED <<hour, epc>>
     ELSE /\ minute' = 0
          /\ hour' = hour + 1
          /\ epc' = IF hour + 1 < total_hours THEN "hour" ELSE "finish"
  /\ UNCHANGED <<src_bodies, base_jd, first_hour, total_hours, h0, h1, h2, h3,
                 cvars, wctl, published0, ivars, rvars, avars,
                 svars, dvars, lvars>>

\* lines 128-133
ExpandFinish ==
  /\ epc = "finish"
  /\ epc' = "done"
  /\ UNCHANGED <<src_bodies, minute_kernel, base_jd, first_hour, total_hours,
                 hour, minute, h0, h1, h2, h3, cvars, wvars, ivars, rvars, avars,
                 svars, dvars, lvars>>

\* File::create, write_all or metadata returns its io::Error through `?`
ExpandIoError ==
  /\ epc \in {"create", "minute", "finish"}
  /\ epc' = "failed"
  /\ UNCHANGED <<src_bodies, minute_kernel, base_jd, first_hour, total_hours,
                 hour, minute, h0, h1, h2, h3, cvars, wvars, ivars, rvars, avars,
                 svars, dvars, lvars>>

ExpandNext ==
  \/ ExpandLoad
  \/ ExpandCreate
  \/ ExpandReadHours
  \/ ExpandWriteMinute
  \/ ExpandFinish
  \/ ExpandIoError

ExpandSpec == ExpandInit /\ [][ExpandNext]_vars

\* ------------------------------------------------- cubic_interpolate alone
\* control values around the 0/360 seam and half a circle apart
InterpAngles ==
  {0, 2, InterpHalf, InterpHalf + 2, InterpFull - 1}

InterpInit ==
  /\ SiderealIdle /\ DedupIdle /\ CitiesIdle
  /\ CodecIdle /\ WriterIdle /\ ExpandIdle /\ ReaderIdle /\ AtlasIdle
  /\ ipc = "step"
  /\ ipos \in InterpAngles \X InterpAngles \X InterpAngles \X InterpAngles
  /\ ik = 0 /\ iresult = 0 /\ iprevious = 0

\* the interpolated value of the next step t = ik / InterpSteps, 0 <= t <= 1
InterpStep ==
  /\ ipc \in {"step", "value"}
  /\ ik <= InterpSteps
  /\ iresult' = cubic_interpolate(ipos[1], ipos[2], ipos[3], ipos[4], ik, InterpSteps)
  /\ iprevious' = iresult
  /\ ik' = ik + 1
  /\ ipc' = "value"
  /\ UNCHANGED <<ipos, cvars, wvars, evars, rvars, avars,
                 svars, dvars, lvars>>

InterpNext == InterpStep

InterpSpec == InterpInit /\ [][InterpNext]_vars

\* ------------------------------------------- the locator: bin/paraboladb
\* The kernel the locator reads has no header: each record is a timestamp and
\* the positions of the bodies, all f64.  sample_interval remembers the
\* cadence its writer used; the locator never reads it.
ReaderIntervals == {2, 3}
ReaderRecordValues == 1 + NumBodies
\* offset += 8 + (20 * 8)
ReaderStrideSkipping == 2 * (8 + NumBodies * 8)
ReaderStride == 8 + NumBodies * 8

\* closest_diff = f64::MAX: above every difference of two times
F64Max == 1000000

\* the position of body b in record i as its writer stored it
StoredPosition(i, b) == (i * NumBodies + b) * AngleRes

RECURSIVE UniformValues(_, _)
UniformValues(n, interval) ==
  IF n = 0 THEN <<>>
  ELSE UniformValues(n - 1, interval)
       \o <<SourceJD + (n - 1) * interval>>
       \o [b \in Bodies |-> StoredPosition(n - 1, b)]

\* whole kernels, and kernels cut off inside the last record or inside a value
ReaderKernelsOf(n) ==
  {FileOf(F64Fields(SubSeq(UniformValues(n, interval), 1,
                           n * ReaderRecordValues - cut)) \o tail) :
     interval \in ReaderIntervals,
     cut \in {c \in 0..NumBodies : c <= n * ReaderRecordValues},
     tail \in {<<>>, <<Field("raw", 4)>>}}
ReaderKernels == {NoFile} \cup UNION {ReaderKernelsOf(n) : n \in 0..MaxSamples}

\* seek(SeekFrom::Start(at)) and read_exact of 8 bytes: Ok exactly when the
\* eight bytes are there
CanRead(data, at) == at \div 8 + 1 <= Len(ValuesOf(data))
ReadF64(data, at) == ValuesOf(data)[at \div 8 + 1]

\* (timestamp - target_jd).abs()
SignedDiff(t, target) == t - target
AbsDiff(t, target) == Abs(t - target)

\* if diff < closest_diff
CloserOrEqual(diff, best) == diff <= best
Closer(diff, best) == diff < best

\* The direct-index locator of the specification: index =
\* round((t - base_timestamp) / interval), clamped to [0, sample_count - 1].
\* round is f64::round, which takes a half away from zero.
RoundHalfAway(num, den) ==
  IF num >= 0 THEN (2 * num + den) \div (2 * den)
  ELSE -((2 * (-num) + den) \div (2 * den))
direct_index(t, base, interval, sample_count) ==
  LET index == RoundHalfAway(t - base, interval)
  IN IF index < 0 THEN 0
     ELSE IF index > sample_count - 1 THEN sample_count - 1
     ELSE index

ReaderInit ==
  /\ SiderealIdle /\ DedupIdle /\ CitiesIdle
  /\ CodecIdle /\ ExpandIdle /\ InterpIdle /\ AtlasIdle
  /\ start_jd = 0 /\ time_delta = 0 /\ precision = "Minute"
  /\ wpc = "idle" /\ wi = 1 /\ winterval = 0
  /\ base_positions = [b \in Bodies |-> 0]
  /\ oracleFailures = {} /\ werr = [body |-> -1]
  /\ kernel \in ReaderKernels
  /\ published0 = kernel
  /\ sample_interval \in ReaderIntervals
  /\ \/ ~kernel.exists
     \/ /\ kernel.exists
        /\ LET vals == ValuesOf(kernel.data)
           IN Len(vals) > ReaderRecordValues =>
                vals[ReaderRecordValues + 1] - vals[1] = sample_interval
  /\ house_file \in {"missing", "short", "complete"}
  /\ target_jd \in (SourceJD - Margin)
                    ..(SourceJD + (MaxSamples - 1) * sample_interval + Margin)
  /\ rpc = "new" /\ offset = 0 /\ closest_offset = 0 /\ closest_diff = 0
  /\ timestamp = 0 /\ rpositions = <<>>

\* ParabolaReader::new: both files are opened; then the first lines of
\* find_closest_time
ReaderNew ==
  /\ rpc = "new"
  /\ IF ~kernel.exists \/ house_file = "missing"
     THEN rpc' = "failed" /\ UNCHANGED <<offset, closest_offset, closest_diff>>
     ELSE /\ rpc' = "scan"
          /\ offset' = 0 /\ closest_offset' = 0 /\ closest_diff' = F64Max
  /\ UNCHANGED <<target_jd, house_file, timestamp, rpositions, sample_interval,
                 cvars, wvars, evars, ivars, avars,
                 svars, dvars, lvars>>

\* one turn of the loop of find_closest_time; a timestamp that cannot be read
\* ends the scan with Ok(closest_offset)
ReaderScan ==
  /\ rpc = "scan"
  /\ IF CanRead(kernel.data, offset)
     THEN LET diff == AbsDiff(ReadF64(kernel.data, offset), target_jd)
          IN /\ IF Closer(diff, closest_diff)
                THEN closest_diff' = diff /\ closest_offset' = offset
                ELSE UNCHANGED <<closest_diff, closest_offset>>
             /\ offset' = offset + ReaderStride
             /\ UNCHANGED rpc
     ELSE /\ rpc' = "timestamp"
          /\ UNCHANGED <<offset, closest_offset, closest_diff>>
  /\ UNCHANGED <<target_jd, house_file, timestamp, rpositions, sample_interval,
                 cvars, wvars, evars, ivars, avars,
                 svars, dvars, lvars>>

\* print_positions: let timestamp = self.read_timestamp(offset)?
ReaderTimestamp ==
  /\ rpc = "timestamp"
  /\ IF CanRead(kernel.data, closest_offset)
     THEN timestamp' = ReadF64(kernel.data, closest_offset) /\ rpc' = "positions"
     ELSE rpc' = "failed" /\ UNCHANGED timestamp
  /\ UNCHANGED <<target_jd, house_file, offset, closest_offset, closest_diff,
                 rpositions, sample_interval, cvars, wvars, evars, ivars, avars,
                 svars, dvars, lvars>>

\* read_positions(offset + 8): every read_exact that fails returns its error
ReaderPositions ==
  /\ rpc = "positions"
  /\ IF \A b \in Bodies : CanRead(kernel.data, closest_offset + 8 * b)
     THEN /\ rpositions' =
               [b \in Bodies |-> ReadF64(kernel.data, closest_offset + 8 * b)]
          /\ rpc' = "houses"
     ELSE rpc' = "failed" /\ UNCHANGED rpositions
  /\ UNCHANGED <<target_jd, house_file, offset, closest_offset, closest_diff,
                 timestamp, sample_interval, cvars, wvars, evars, ivars, avars,
                 svars, dvars, lvars>>

\* read_houses: 16 bytes skipped, then 5 * 12 values of houses.kernel
ReaderHouses ==
  /\ rpc = "houses"
  /\ rpc' = IF house_file = "complete" THEN "print" ELSE "failed"
  /\ UNCHANGED <<target_jd, house_file, offset, closest_offset, closest_diff,
                 timestamp, rpositions, sample_interval,
                 cvars, wvars, evars, ivars, avars,
                 svars, dvars, lvars>>

\* the tables are printed; Ok(())
ReaderPrint ==
  /\ rpc = "print"
  /\ rpc' = "done"
  /\ UNCHANGED <<target_jd, house_file, offset, closest_offset, closest_diff,
                 timestamp, rpositions, sample_interval,
                 cvars, wvars, evars, ivars, avars,
                 svars, dvars, lvars>>

ReaderNext ==
  \/ ReaderNew
  \/ ReaderScan
  \/ ReaderTimestamp
  \/ ReaderPositions
  \/ ReaderHouses
  \/ ReaderPrint

ReaderSpec == ReaderInit /\ [][ReaderNext]_vars

\* ---------------------------------------- the scan over arbitrary records
\* Kernels whose records carry any timestamps, in any order and with
\* repetitions; the last record may be cut off after its timestamp.
ScanSpan == 3
ScanTimes == SourceJD..(SourceJD + ScanSpan)

RECURSIVE ScanValues(_)
ScanValues(times) ==
  IF times = <<>> THEN <<>>
  ELSE LET n == Len(times)
       IN ScanValues(SubSeq(times, 1, n - 1))
          \o <<times[n]>>
          \o [b \in Bodies |-> StoredPosition(n - 1, b)]

ScanKernelsOf(times) ==
  {FileOf(F64Fields(SubSeq(ScanValues(times), 1,
                           Len(times) * ReaderRecordValues - cut))) :
     cut \in {c \in {0, NumBodies} : c <= Len(times) * ReaderRecordValues}}
ScanKernels ==
  UNION {ScanKernelsOf(times) : times \in SeqsUpTo(ScanTimes, MaxSamples)}

ScanInit ==
  /\ SiderealIdle /\ DedupIdle /\ CitiesIdle
  /\ CodecIdle /\ ExpandIdle /\ InterpIdle /\ AtlasIdle
  /\ start_jd = 0 /\ time_delta = 0 /\ precision = "Minute"
  /\ wpc = "idle" /\ wi = 1 /\ winterval = 0
  /\ base_positions = [b \in Bodies |-> 0]
  /\ oracleFailures = {} /\ werr = [body |-> -1]
  /\ kernel \in ScanKernels
  /\ published0 = kernel
  /\ sample_interval = 0
  /\ house_file \in {"short", "complete"}
  /\ target_jd \in (SourceJD - 1)..(SourceJD + ScanSpan + 1)
  /\ rpc = "new" /\ offset = 0 /\ closest_offset = 0 /\ closest_diff = 0
  /\ timestamp = 0 /\ rpositions = <<>>

ScanSpec == ScanInit /\ [][ReaderNext]_vars

\* the reader is one sequential program: it takes its next step whenever it
\* has one
ScanFairSpec == ScanSpec /\ WF_vars(ReaderNext)

\* -------------------------------- the single-sample writer: src/main.rs
\* ZenithKernel::new computes the positions at start_jd, write stores the
\* timestamp and the positions as f64; ParabolaReader then reads the file.
SingleTargets == -1..(SourceJD + 1)

\* for pos in &self.base_positions: the value of the i-th write_all
PositionWrittenReversed(i) == base_positions[NumBodies + 1 - i]
PositionWritten(i) == base_positions[i]

SingleInit ==
  /\ SiderealIdle /\ DedupIdle /\ CitiesIdle
  /\ CodecIdle /\ ExpandIdle /\ InterpIdle /\ AtlasIdle
  /\ start_jd \in Starts
  /\ time_delta = 0 /\ precision = "Day"
  /\ wpc = "new" /\ wi = 1 /\ winterval = 0
  /\ base_positions = [b \in Bodies |-> 0]
  /\ kernel \in {NoFile, OldKernel}
  /\ published0 = kernel
  /\ oracleFailures = {} /\ werr = [body |-> -1]
  /\ sample_interval = 0
  /\ house_file \in {"missing", "short", "complete"}
  /\ target_jd \in SingleTargets
  /\ rpc = "idle" /\ offset = 0 /\ closest_offset = 0 /\ closest_diff = 0
  /\ timestamp = 0 /\ rpositions = <<>>

\* ZenithKernel::new, one body of the loop: if ret >= 0 the normalised
\* longitude is kept, else the slot stays 0.0 and the loop goes on
SingleCalc ==
  /\ wpc = "new"
  /\ \E ok \in BOOLEAN :
       IF ok
       THEN /\ base_positions' =
                 [base_positions EXCEPT ![wi] = rem_euclid(OracleAngle(start_jd, wi))]
            /\ UNCHANGED oracleFailures
       ELSE /\ oracleFailures' = oracleFailures \cup {<<start_jd, wi>>}
            /\ UNCHANGED base_positions
  /\ IF wi < NumBodies
     THEN wi' = wi + 1 /\ wpc' = "new"
     ELSE wi' = 1 /\ wpc' = "create"
  /\ UNCHANGED <<start_jd, time_delta, precision, winterval, werr, files,
                 cvars, evars, ivars, rvars, avars,
                 svars, dvars, lvars>>

\* write: File::create("zenith.kernel") and the timestamp
SingleCreate ==
  /\ wpc = "create"
  /\ kernel' = FileOf(<<Field("f64", start_jd)>>)
  /\ wpc' = "write" /\ wi' = 1
  /\ UNCHANGED <<start_jd, time_delta, precision, winterval, base_positions,
                 oracleFailures, werr, published0,
                 cvars, evars, ivars, rvars, avars,
                 svars, dvars, lvars>>

\* write: one position of the loop over base_positions
SingleWrite ==
  /\ wpc = "write"
  /\ kernel' = FileOf(Append(kernel.data, Field("f64", PositionWritten(wi))))
  /\ IF wi < NumBodies
     THEN wi' = wi + 1 /\ wpc' = "write"
     ELSE wi' = 1 /\ wpc' = "written"
  /\ UNCHANGED <<start_jd, time_delta, precision, winterval, base_positions,
                 oracleFailures, werr, published0,
                 cvars, evars, ivars, rvars, avars,
                 svars, dvars, lvars>>

\* the writer has returned; paraboladb is started on the file
SingleRead ==
  /\ wpc = "written" /\ rpc = "idle"
  /\ rpc' = "new"
  /\ UNCHANGED <<target_jd, house_file, offset, closest_offset, closest_diff,
                 timestamp, rpositions, sample_interval,
                 cvars, wvars, evars, ivars, avars,
                 svars, dvars, lvars>>

SingleNext ==
  \/ SingleCalc
  \/ SingleCreate
  \/ SingleWrite
  \/ SingleRead
  \/ ReaderNext

SingleSpec == SingleInit /\ [][SingleNext]_vars

\* --------- the sidereal kernel: bin/medusajpl_sidereal and paraboladb.old
\* The writer stores the timestamp, the positions of its 20 bodies and three
\* ayanamsas; the reader loads the file and prints one row for each of its
\* 18 names.  Bodies go by the names of their Swiss Ephemeris constants.

\* most calls of swe_calc_ut that fail in one run of either program
MaxOracleFailures == 1

\* let bodies = [...] of medusajpl_sidereal
WriterBodies ==
  <<"SE_SUN", "SE_MOON", "SE_MERCURY", "SE_VENUS", "SE_MARS",
    "SE_JUPITER", "SE_SATURN", "SE_URANUS", "SE_NEPTUNE", "SE_PLUTO",
    "SE_CHIRON", "SE_TRUE_NODE", "SE_MEAN_APOG", "SE_VESTA",
    "SE_JUNO", "SE_CERES", "SE_PALLAS", "SE_ASC", "SE_ARMC",
    "SE_AST_OFFSET + 5550">>

\* const BODIES: [&str; 18] of paraboladb.old
BODIES ==
  <<"Sun", "Moon", "Mercury", "Venus", "Mars",
    "Jupiter", "Saturn", "Uranus", "Neptune", "Pluto",
    "Chiron", "True Node", "Mean Apogee",
    "Vesta", "Juno", "Ceres", "Pallas", "15550">>

\* let bodies = [...] of paraboladb.old: the bodies it asks the oracle for
ReaderBodies ==
  <<"SE_SUN", "SE_MOON", "SE_MERCURY", "SE_VENUS", "SE_MARS", "SE_JUPITER",
    "SE_SATURN", "SE_URANUS", "SE_NEPTUNE", "SE_PLUTO", "SE_CHIRON",
    "SE_TRUE_NODE", "SE_MEAN_APOG", "SE_VESTA", "SE_JUNO", "SE_CERES",
    "SE_PALLAS", "SE_ASC", "SE_ARMC", "SE_AST_OFFSET + 5550">>

\* const GROUPS: the ranges of rows, first index and the index past the last
GROUPS == <<<<0, 3>>, <<3, 7>>, <<7, 10>>, <<10, 13>>, <<13, 17>>, <<17, 18>>>>

\* for &(ref range, _) in GROUPS.iter() { for i in range.clone() {..} }: the
\* indices in the order the rows are visited
RECURSIVE RowsOf(_)
RowsOf(groups) ==
  IF groups = <<>> THEN <<>>
  ELSE LET first == Head(groups)[1]
           past == Head(groups)[2]
       IN [k \in 1..(past - first) |-> first + k - 1] \o RowsOf(Tail(groups))
RowOrder == RowsOf(GROUPS)

\* for _ in 0..18 and for i in 0..3 of paraboladb.old
ReaderSlots == 18
AyanamsaCount == 3

\* the modes in the order of ayanamsa_values
SiderealModes == <<"FaganBradley", "Lahiri", "TrueCitra">>
ZodiacModes == {"Tropical", "FaganBradley", "Lahiri", "TrueCitra"}

\* swe_calc_ut(t, body): the longitude it yields for a body of WriterBodies
BodyNumber(body) == CHOOSE i \in 1..Len(WriterBodies) : WriterBodies[i] = body
SweLongitude(t, body) == BodyNumber(body) * 1000003 + t * 90001

\* swe_get_ayanamsa(t) after swe_set_sid_mode(mode)
ModeNumber(mode) == CHOOSE k \in 1..Len(SiderealModes) : SiderealModes[k] = mode
SweAyanamsa(t, mode) == 34000000 + ModeNumber(mode) * 700001 + t * 5

\* format_position: the angle that is formatted
AdjustedDegrees(deg, mode, values) ==
  rem_euclid(CASE mode = "Tropical" -> deg
               [] mode = "FaganBradley" -> deg - values[1]
               [] mode = "Lahiri" -> deg - values[2]
               [] mode = "TrueCitra" -> deg - values[3])

SiderealInit ==
  /\ CodecIdle /\ ExpandIdle /\ InterpIdle /\ AtlasIdle
  /\ DedupIdle /\ CitiesIdle
  /\ start_jd \in Starts
  /\ time_delta = 0 /\ precision = "Day"
  /\ wpc = "ayanamsa" /\ wi = 1 /\ winterval = 0
  /\ base_positions = [i \in 1..Len(WriterBodies) |-> 0]
  /\ kernel \in {NoFile, OldKernel}
  /\ published0 = kernel
  /\ oracleFailures = {} /\ werr = [body |-> -1]
  /\ sid_ayanamsa = <<0, 0, 0>>
  /\ zodiac_mode \in ZodiacModes
  /\ target_jd = SourceJD
  /\ sample_interval = 0 /\ house_file = "missing"
  /\ rpc = "idle" /\ offset = 0 /\ closest_offset = 0 /\ closest_diff = 0
  /\ timestamp = 0 /\ rpositions = <<>>
  /\ ayanamsa_values = <<0, 0, 0>> /\ row = 0 /\ printed = <<>>

\* the three ayanamsas at start_jd, each after its swe_set_sid_mode
SiderealAyanamsa ==
  /\ wpc = "ayanamsa"
  /\ sid_ayanamsa' = [k \in 1..AyanamsaCount |->
                        SweAyanamsa(start_jd, SiderealModes[k])]
  /\ wpc' = "calc"
  /\ UNCHANGED <<start_jd, time_delta, precision, wi, winterval, base_positions,
                 oracleFailures, werr, files, cvars, evars, ivars, rvars, avars,
                 zodiac_mode, ayanamsa_values, row, printed, dvars, lvars>>

\* one body of the loop: if ret >= 0 the normalised longitude is kept, else
\* the slot stays 0.0
SiderealCalc ==
  /\ wpc = "calc"
  /\ \E ok \in {TRUE} \cup {FALSE : n \in 1..(MaxOracleFailures
                                               - Cardinality(oracleFailures))} :
       IF ok
       THEN /\ base_positions' =
                 [base_positions EXCEPT
                    ![wi] = rem_euclid(SweLongitude(start_jd, WriterBodies[wi]))]
            /\ UNCHANGED oracleFailures
       ELSE /\ oracleFailures' = oracleFailures \cup {<<start_jd, wi>>}
            /\ UNCHANGED base_positions
  /\ IF wi < Len(WriterBodies)
     THEN wi' = wi + 1 /\ wpc' = "calc"
     ELSE wi' = 1 /\ wpc' = "create"
  /\ UNCHANGED <<start_jd, time_delta, precision, winterval, werr, files,
                 cvars, evars, ivars, rvars, avars, svars, dvars, lvars>>

\* File::create("zenith.kernel") and the timestamp
SiderealCreate ==
  /\ wpc = "create"
  /\ kernel' = FileOf(<<Field("f64", start_jd)>>)
  /\ wpc' = "write" /\ wi' = 1
  /\ UNCHANGED <<start_jd, time_delta, precision, winterval, base_positions,
                 oracleFailures, werr, published0,
                 cvars, evars, ivars, rvars, avars, svars, dvars, lvars>>

\* for pos in &base_positions: one position
SiderealWrite ==
  /\ wpc = "write"
  /\ kernel' = FileOf(Append(kernel.data, Field("f64", base_positions[wi])))
  /\ IF wi < Len(WriterBodies)
     THEN wi' = wi + 1 /\ wpc' = "write"
     ELSE wi' = 1 /\ wpc' = "write_ayanamsa"
  /\ UNCHANGED <<start_jd, time_delta, precision, winterval, base_positions,
                 oracleFailures, werr, published0,
                 cvars, evars, ivars, rvars, avars, svars, dvars, lvars>>

\* for ayan in &ayanamsa_values: one ayanamsa, after the positions
SiderealWriteAyanamsa ==
  /\ wpc = "write_ayanamsa"
  /\ kernel' = FileOf(Append(kernel.data, Field("f64", sid_ayanamsa[wi])))
  /\ IF wi < AyanamsaCount
     THEN wi' = wi + 1 /\ wpc' = "write_ayanamsa"
     ELSE wi' = 1 /\ wpc' = "written"
  /\ UNCHANGED <<start_jd, time_delta, precision, winterval, base_positions,
                 oracleFailures, werr, published0,
                 cvars, evars, ivars, rvars, avars, svars, dvars, lvars>>

\* paraboladb.old is started: File::open and the timestamp
SiderealOpen ==
  /\ wpc = "written" /\ rpc = "idle"
  /\ IF kernel.exists /\ CanRead(kernel.data, 0)
     THEN timestamp' = ReadF64(kernel.data, 0) /\ rpc' = "positions"
     ELSE rpc' = "failed" /\ UNCHANGED timestamp
  /\ UNCHANGED <<target_jd, house_file, offset, closest_offset, closest_diff,
                 rpositions, sample_interval,
                 cvars, wvars, evars, ivars, avars, svars, dvars, lvars>>

\* for _ in 0..18: the values after the timestamp become base_positions
SiderealReadPositions ==
  /\ rpc = "positions"
  /\ IF \A i \in 1..ReaderSlots : CanRead(kernel.data, 8 * i)
     THEN /\ rpositions' = [i \in 1..ReaderSlots |-> ReadF64(kernel.data, 8 * i)]
          /\ rpc' = "ayanamsa"
     ELSE rpc' = "failed" /\ UNCHANGED rpositions
  /\ UNCHANGED <<target_jd, house_file, offset, closest_offset, closest_diff,
                 timestamp, sample_interval,
                 cvars, wvars, evars, ivars, avars, svars, dvars, lvars>>

\* for i in 0..3: the three values that follow become ayanamsa_values
SiderealReadAyanamsa ==
  /\ rpc = "ayanamsa"
  /\ IF \A k \in 1..AyanamsaCount : CanRead(kernel.data, 8 * (ReaderSlots + k))
     THEN /\ ayanamsa_values' =
               [k \in 1..AyanamsaCount |->
                  ReadF64(kernel.data, 8 * (ReaderSlots + k))]
          /\ rpc' = "rows" /\ row' = 1
     ELSE rpc' = "failed" /\ UNCHANGED <<ayanamsa_values, row>>
  /\ UNCHANGED <<target_jd, house_file, offset, closest_offset, closest_diff,
                 timestamp, rpositions, sample_interval,
                 cvars, wvars, evars, ivars, avars,
                 zodiac_mode, sid_ayanamsa, printed, dvars, lvars>>

\* one row of the table: printed if ret >= 0
SiderealRow ==
  /\ rpc = "rows"
  /\ IF row <= Len(RowOrder)
     THEN LET i == RowOrder[row]
              swe_pos == rem_euclid(SweLongitude(target_jd, ReaderBodies[i + 1]))
              line == [slot |-> i,
                       name |-> BODIES[i + 1],
                       body |-> ReaderBodies[i + 1],
                       kernel_pos |-> rpositions[i + 1],
                       swe_pos |-> swe_pos,
                       shown |-> AdjustedDegrees(swe_pos, zodiac_mode,
                                                 ayanamsa_values)]
          IN /\ \E ok \in {TRUE} \cup {FALSE : n \in 1..(MaxOracleFailures
                                                       - (row - 1 - Len(printed)))} :
                  printed' = IF ok THEN Append(printed, line) ELSE printed
             /\ row' = row + 1
             /\ UNCHANGED rpc
     ELSE rpc' = "done" /\ UNCHANGED <<row, printed>>
  /\ UNCHANGED <<target_jd, house_file, offset, closest_offset, closest_diff,
                 timestamp, rpositions, sample_interval,
                 cvars, wvars, evars, ivars, avars,
                 zodiac_mode, sid_ayanamsa, ayanamsa_values, dvars, lvars>>

SiderealNext ==
  \/ SiderealAyanamsa
  \/ SiderealCalc
  \/ SiderealCreate
  \/ SiderealWrite
  \/ SiderealWriteAyanamsa
  \/ SiderealOpen
  \/ SiderealReadPositions
  \/ SiderealReadAyanamsa
  \/ SiderealRow

SiderealSpec == SiderealInit /\ [][SiderealNext]_vars

\* ------------------------------------- the house patterns: bin/projectatlas
\* HOUSE_SYSTEMS, by index
HouseSystems == 1..NumSystems
Workers == 1..MaxThreads

\* swe_houses(J2000, lat, lon, system): the offsets it yields for a location
\* when no other call runs beside it
HousePatternOf(loc, sys) == loc * 100 + sys

NotCollected == 0 - 1
Calling == {w \in 1..threads : in_call[w] # 0}

AtlasInit ==
  /\ SiderealIdle /\ DedupIdle /\ CitiesIdle
  /\ CodecIdle /\ WriterIdle /\ ExpandIdle /\ InterpIdle /\ ReaderIdle
  /\ apc = "load" /\ locations = 0
  /\ threads \in Workers
  /\ system = 1 /\ todo = {} /\ in_call = [w \in Workers |-> 0]
  /\ raced = {} /\ collected = <<>> /\ patterns = <<>>

\* load_cities: the locations of the file, sorted; or its io::Error.  Then
\* generate_patterns starts on the first house system.
AtlasLoad ==
  /\ apc = "load"
  /\ \/ /\ apc' = "failed"
        /\ UNCHANGED <<locations, todo, collected>>
     \/ \E n \in 0..MaxLocations :
          /\ locations' = n
          /\ todo' = 1..n
          /\ collected' = [l \in 1..n |-> NotCollected]
          /\ apc' = "generate"
  /\ UNCHANGED <<threads, system, in_call, raced, patterns,
                 cvars, wvars, evars, ivars, rvars,
                 svars, dvars, lvars>>

\* a thread of the pool takes a location of the par_iter and enters
\* swe_houses; nothing makes it wait for a call another thread is in
AtlasCall(w) ==
  /\ apc = "generate"
  /\ w \in 1..threads /\ in_call[w] = 0
  /\ \E loc \in todo :
       /\ todo' = todo \ {loc}
       /\ in_call' = [in_call EXCEPT ![w] = loc]
       /\ raced' = IF Calling = {} THEN raced
                   ELSE raced \cup {loc} \cup {in_call[v] : v \in Calling}
  /\ UNCHANGED <<apc, locations, threads, system, collected, patterns,
                 cvars, wvars, evars, ivars, rvars,
                 svars, dvars, lvars>>

\* swe_houses returns and the closure yields (loc, pattern).  A call that ran
\* beside another one shared the library's global state with it: its
\* offsets may be those of any location of the run.
AtlasReturn(w) ==
  /\ apc = "generate"
  /\ w \in 1..threads /\ in_call[w] # 0
  /\ \E pattern \in IF in_call[w] \in raced
                    THEN {HousePatternOf(l, system) : l \in 1..locations}
                    ELSE {HousePatternOf(in_call[w], system)} :
       collected' = [collected EXCEPT ![in_call[w]] = pattern]
  /\ in_call' = [in_call EXCEPT ![w] = 0]
  /\ UNCHANGED <<apc, locations, threads, system, todo, raced, patterns,
                 cvars, wvars, evars, ivars, rvars,
                 svars, dvars, lvars>>

\* collect() and self.patterns.insert(system, patterns); then the next
\* house system, or the end of generate_patterns
AtlasCollect ==
  /\ apc = "generate"
  /\ todo = {} /\ Calling = {}
  /\ patterns' = Append(patterns, collected)
  /\ IF system < NumSystems
     THEN /\ system' = system + 1
          /\ todo' = 1..locations
          /\ collected' = [l \in 1..locations |-> NotCollected]
          /\ raced' = {}
          /\ UNCHANGED apc
     ELSE /\ apc' = "write"
          /\ UNCHANGED <<system, todo, collected, raced>>
  /\ UNCHANGED <<locations, threads, in_call,
                 cvars, wvars, evars, ivars, rvars,
                 svars, dvars, lvars>>

\* deduplicate_patterns and write_kernel("vesta.kernel"), or its io::Error
AtlasWrite ==
  /\ apc = "write"
  /\ apc' \in {"done", "failed"}
  /\ UNCHANGED <<locations, threads, system, todo, in_call, raced, collected,
                 patterns, cvars, wvars, evars, ivars, rvars,
                 svars, dvars, lvars>>

AtlasNext ==
  \/ AtlasLoad
  \/ \E w \in Workers : AtlasCall(w)
  \/ \E w \in Workers : AtlasReturn(w)
  \/ AtlasCollect
  \/ AtlasWrite

AtlasSpec == AtlasInit /\ [][AtlasNext]_vars

\* ------------------------------------------------- deduplicate_patterns
\* A HousePattern is shown by two of its 12 offsets (the comparison treats
\* all offsets alike); locations go by their index.  The lists of the systems
\* already gone through are not read again by the loop and are not kept.
PatternPool ==
  {<<10, 20>>, <<11, 20>>, <<12, 20>>, <<11, 21>>, <<10, 22>>}

\* a.max(b) - a.min(b) <= 1
WithinOffByTwo(a, b) == Abs(a - b) <= 2
WithinTolerance(a, b) == Abs(a - b) <= 1

\* pattern.offsets.iter().zip(p.offsets.iter()).all(..)
Similar(pattern, p) ==
  \A i \in 1..Len(pattern) : WithinTolerance(pattern[i], p[i])

\* the lists generate_patterns can have left for one system: a pattern for
\* every location, in the order of self.locations
RECURSIVE PatternLists(_)
PatternLists(n) ==
  IF n = 0 THEN {<<>>}
  ELSE {Append(list, <<n, pattern>>) :
          list \in PatternLists(n - 1), pattern \in PatternPool}

DedupInit ==
  /\ CodecIdle /\ WriterIdle /\ ExpandIdle /\ InterpIdle /\ ReaderIdle
  /\ SiderealIdle /\ CitiesIdle
  /\ apc = "idle" /\ locations \in 0..MaxLocations /\ threads = 1
  /\ system = 1 /\ todo = {} /\ in_call = <<>>
  /\ raced = {} /\ collected = <<>> /\ patterns = <<>>
  /\ dpc = "systems" /\ systems_left = HouseSystems
  /\ original = <<>> /\ pending = <<>>
  /\ unique_patterns = {} /\ deduplicated = <<>>

\* for (system, patterns) in self.patterns.iter_mut(): the next entry of the
\* map, in the order of the HashMap; unique_patterns and deduplicated are new
DedupSystem ==
  /\ dpc = "systems"
  /\ IF systems_left = {}
     THEN /\ dpc' = "done"
          /\ UNCHANGED <<system, systems_left, original, pending,
                         unique_patterns, deduplicated>>
     ELSE \E sys \in systems_left, list \in PatternLists(locations) :
            /\ system' = sys
            /\ systems_left' = systems_left \ {sys}
            /\ original' = list
            /\ pending' = list
            /\ unique_patterns' = {}
            /\ deduplicated' = <<>>
            /\ dpc' = "drain"
  /\ UNCHANGED <<apc, locations, threads, todo, in_call, raced, collected,
                 patterns, cvars, wvars, evars, ivars, rvars, svars, lvars>>

\* one (loc, pattern) of patterns.drain(..): a similar pattern among the
\* unique ones, whichever the HashMap yields first, takes its place
DedupDrain ==
  /\ dpc = "drain" /\ pending # <<>>
  /\ LET loc == Head(pending)[1]
         pattern == Head(pending)[2]
         similar == {p \in unique_patterns : Similar(pattern, p)}
     IN IF similar # {}
        THEN /\ \E existing \in similar :
                  deduplicated' = Append(deduplicated, <<loc, existing>>)
             /\ UNCHANGED unique_patterns
        ELSE /\ unique_patterns' = unique_patterns \cup {pattern}
             /\ deduplicated' = Append(deduplicated, <<loc, pattern>>)
  /\ pending' = Tail(pending)
  /\ UNCHANGED <<dpc, systems_left, original, avars,
                 cvars, wvars, evars, ivars, rvars, svars, lvars>>

\* *patterns = deduplicated, and the end of the loop body
DedupStore ==
  /\ dpc = "drain" /\ pending = <<>>
  /\ dpc' = "systems"
  /\ original' = <<>> /\ deduplicated' = <<>> /\ unique_patterns' = {}
  /\ UNCHANGED <<systems_left, pending, avars,
                 cvars, wvars, evars, ivars, rvars, svars, lvars>>

DedupNext ==
  \/ DedupSystem
  \/ DedupDrain
  \/ DedupStore

DedupSpec == DedupInit /\ [][DedupNext]_vars

\* ----------------------------------------------------------- load_cities
\* A line is the sequence of its tab-separated fields; of a field only what
\* parse::<f64>() makes of it matters.  Coordinates are in units of 0.0001
\* degrees.
MaxLines == 3
TextField == [number |-> FALSE, v |-> 0]
NumberField(v) == [number |-> TRUE, v |-> v]
Latitudes == {-2, 1}
Longitudes == {-1, 2}
LatitudeFields == {TextField} \cup {NumberField(v) : v \in Latitudes}
LongitudeFields == {TextField} \cup {NumberField(v) : v \in Longitudes}
NameFields == <<TextField, TextField, TextField, TextField>>

CityLines ==
  {<<TextField>>, NameFields}
  \cup {Append(NameFields, lat) : lat \in LatitudeFields}
  \cup {NameFields \o <<lat, lon>> :
           lat \in LatitudeFields, lon \in LongitudeFields}
  \cup {NameFields \o <<NumberField(1), NumberField(2), TextField>>}

\* packed_coords: (lat_packed * 10000000) + lon_packed
LatShift == 10000000

\* pack_coordinates
pack_coordinates(lat, lon) ==
  [packed_coords |-> Abs(lat) * LatShift + Abs(lon),
   flags |-> (IF lat < 0 THEN 2 ELSE 0) + (IF lon < 0 THEN 1 ELSE 0),
   lat |-> lat,
   lon |-> lon]

\* sort_by_key(|loc| loc.packed_coords): a stable sort
RECURSIVE InsertByKey(_, _)
InsertByKey(sorted, loc) ==
  IF sorted = <<>> THEN <<loc>>
  ELSE IF Head(sorted).packed_coords <= loc.packed_coords
       THEN <<Head(sorted)>> \o InsertByKey(Tail(sorted), loc)
       ELSE <<loc>> \o sorted
RECURSIVE SortByKey(_)
SortByKey(list) ==
  IF list = <<>> THEN <<>>
  ELSE InsertByKey(SortByKey(SubSeq(list, 1, Len(list) - 1)), list[Len(list)])

CitiesInit ==
  /\ CodecIdle /\ WriterIdle /\ ExpandIdle /\ InterpIdle /\ ReaderIdle
  /\ AtlasIdle /\ SiderealIdle /\ DedupIdle
  /\ lpc = "lines"
  /\ lines \in SeqsUpTo(CityLines, MaxLines)
  /\ self_locations = <<>>

\* one line of the file: fields[4] and fields[5] are parsed if there are at
\* least 5 fields; indexing fields[5] of a line of 5 fields panics
CitiesLine ==
  /\ lpc = "lines" /\ lines # <<>>
  /\ LET fields == Head(lines)
     IN IF Len(fields) >= 5
        THEN IF Len(fields) < 6
             THEN lpc' = "panicked" /\ UNCHANGED <<lines, self_locations>>
             ELSE /\ self_locations' =
                       IF fields[5].number /\ fields[6].number
                       THEN Append(self_locations,
                                   pack_coordinates(fields[5].v, fields[6].v))
                       ELSE self_locations
                  /\ lines' = Tail(lines)
                  /\ UNCHANGED lpc
        ELSE lines' = Tail(lines) /\ UNCHANGED <<lpc, self_locations>>
  /\ UNCHANGED <<cvars, wvars, evars, ivars, rvars, avars, svars, dvars>>

\* the end of the file: the locations are sorted; Ok(())
CitiesSort ==
  /\ lpc = "lines" /\ lines = <<>>
  /\ self_locations' = SortByKey(self_locations)
  /\ lpc' = "loaded"
  /\ UNCHANGED <<lines, cvars, wvars, evars, ivars, rvars, avars, svars, dvars>>

CitiesNext ==
  \/ CitiesLine
  \/ CitiesSort

CitiesSpec == CitiesInit /\ [][CitiesNext]_vars

\* ------------------------------------------------------------------ claims

\* the number of samples of the generated range: ceil((end-start)/interval) + 1
SampleCount == Intervals(time_delta, precision) + 1

\* slot b of record i of the published kernel (i from 0)
RecordSlot(i, b) == kernel.data[HeaderFields + i * NumBodies + b]

\* C1 (as stated): at every moment of a generation, and after it stopped at
\* any step, the published path holds the previously published kernel
\* unchanged or the complete new kernel, never a partly written file.
C1_PublishedNeverPartial ==
  kernel = published0 \/ wpc = "done"

\* C2 (as stated): an oracle failure for any (timestamp, body), at any sample
\* index, aborts the generation with an error naming the failing body, and
\* nothing is published.
C2_OracleFailureAborts ==
  \A f \in oracleFailures :
    /\ wpc = "new_failed"
    /\ werr.body = f[2] - 1
    /\ kernel = published0

\* C3 (as stated): every kernel published for start <= end, whatever the
\* oracle's successes and failures, has ceil((end-start)/interval) + 1
\* records and exactly header_size + sample_count * record_size bytes.
C3_PublishedSize ==
  (wpc = "done" /\ time_delta >= 0) =>
    FileSize(kernel.data) = HeaderSize + SampleCount * RecordSize

\* C4 (as stated): record i of a generated kernel holds, body by body in the
\* fixed order, the positions of t = start + i*interval, for every i below
\* sample_count; so no two records hold the same timestamp.
C4_RecordTimes ==
  wpc = "done" =>
    \A i \in 0..(SampleCount - 1) : \A b \in Bodies :
      /\ HeaderFields + i * NumBodies + b <= Len(kernel.data)
      /\ RecordSlot(i, b) =
           Field("u32", encode(OracleAngle(start_jd + i * to_jd(precision), b)))

PackedFullCircle == DegreesPerCircle * CentisecPerDegree

\* normalize(x) = x mod 360, the Euclidean modulo in exact arithmetic
normalize(x) == x % Full

\* C5 (as stated): the stored value is round(normalize(degrees) * 3600 * 100),
\* the nearest centi-arcsecond count of the Euclidean-normalised angle.
C5_StoresNearestCount ==
  cpc = "packed" => cpacked = CentisecRounded(normalize(craw))

\* C5 (amended): the stored value is the centi-arcsecond count of the
\* normalised angle truncated toward zero: packed <= n * 360000 < packed + 1,
\* where n is what rem_euclid(360.0) returned for the raw angle.
C5_StoresTruncatedCount ==
  cpc = "packed" =>
    /\ cpacked * Sub <= rem_euclid(craw)
    /\ rem_euclid(craw) < cpacked * Sub + Sub

\* C5 witness: an encoded angle whose fraction of a centi-arcsecond is a half
\* or more, so that rounding and truncation differ.
C5_Witness ==
  /\ cpc = "packed"
  /\ craw > Full
  /\ 2 * (rem_euclid(craw) - cpacked * Sub) >= Sub

\* C6: for d in [0,360), decode(encode(d)) is within one centi-arcsecond of d.
C6_RoundTrip ==
  (cpc = "packed" /\ craw >= 0 /\ craw < Full) =>
    Abs(decode(cpacked) - craw) <= Sub

\* C6 witness: an angle of [0,360) that is not a whole number of
\* centi-arcseconds has been encoded, and decodes to another angle.
C6_Witness ==
  /\ cpc = "packed"
  /\ craw > 0 /\ craw < Full
  /\ decode(cpacked) # craw

\* C7 (as stated): for every raw angle, negative ones included, the stored
\* integer is below 360*3600*100 and so decodes into [0,360).
C7_PackedBelowFullCircle ==
  cpc = "packed" =>
    /\ cpacked < PackedFullCircle
    /\ decode(cpacked) >= 0 /\ decode(cpacked) < Full

\* the values of the source kernel and of the expanded kernel, base JD aside
SourceValues == PositionsOf(kernel.data)
FineValues == PositionsOf(minute_kernel.data)
\* the samples the writer of the source kernel put into it
SourceSamples == Len(SourceValues) \div src_bodies
Degrees(d) == Exactly(d * AngleRes, MinutesPerHourExpanded)

\* C8 (as stated): the hourly kernel of 3 samples of one body, 10, 20 and 30
\* degrees, expands to fine records of which record 0 is 10 degrees, record
\* 59 lies strictly between 10 and 20 degrees and record 60 is 20 degrees.
C8_EndToEndScenario ==
  (/\ epc = "done"
   /\ src_bodies = 1
   /\ SourceValues = <<10 * AngleRes, 20 * AngleRes, 30 * AngleRes>>)
  => /\ Len(FineValues) > MinutesPerHourExpanded
     /\ FineValues[1] = Degrees(10)
     /\ FineValues[MinutesPerHourExpanded] > Degrees(10)
     /\ FineValues[MinutesPerHourExpanded] < Degrees(20)
     /\ FineValues[MinutesPerHourExpanded + 1] = Degrees(20)

\* C9 (as stated): a source kernel of n >= 2 samples expands to exactly 60
\* fine records for each of its n-1 intervals (120 for 3 samples), and source
\* sample j is the first fine record of interval j.
C9_FineRecordsPerInterval ==
  (epc = "done" /\ SourceSamples >= 2)
  => /\ Len(FineValues) =
          (SourceSamples - 1) * MinutesPerHourExpanded * src_bodies
     /\ \A j \in 0..(SourceSamples - 2) : \A b \in 1..src_bodies :
          FineValues[j * MinutesPerHourExpanded * src_bodies + b]
            = Exactly(SourceValues[j * src_bodies + b], MinutesPerHourExpanded)

\* an interpolated value read forward across the 360/0 seam
Unwrapped(v) ==
  IF v < Exactly(InterpHalf, InterpSteps)
  THEN v + Exactly(InterpFull, InterpSteps) ELSE v

\* C10 (as stated): between the coarse samples 359.9 and 0.2 degrees the
\* values at the steps t in (0,1) advance forward through the seam: each is
\* above the one before it and they stay between 359.9 and 360.2, unwrapped.
C10_ForwardThroughSeam ==
  (/\ ipc = "value"
   /\ ipos[2] = InterpFull - 1 /\ ipos[3] = 2
   /\ ik - 1 >= 1 /\ ik - 1 < InterpSteps)
  => /\ Unwrapped(iprevious) < Unwrapped(iresult)
     /\ Unwrapped(iresult) >= Exactly(InterpFull - 1, InterpSteps)
     /\ Unwrapped(iresult) <= Exactly(InterpFull + 2, InterpSteps)

\* C11 (as stated): for every source interval j and every body, the fine
\* record emitted at t = 0 of that interval (fine record 60*j) equals the
\* coarse sample p1 at the interval's start (source sample j).
C11_FineRecordAtStartIsP1 ==
  \A j \in 0..(SourceSamples - 2) : \A b \in 1..src_bodies :
    LET at == j * MinutesPerHourExpanded * src_bodies + b
    IN at <= Len(FineValues) =>
         FineValues[at] = Exactly(SourceValues[j * src_bodies + b],
                                  MinutesPerHourExpanded)

\* the kernel the locator reads: its values, whole records, their times
ReaderValues == ValuesOf(kernel.data)
ReaderWhole ==
  /\ kernel.exists
  /\ ReaderValues # <<>>
  /\ FileSize(kernel.data) = Len(ReaderValues) * 8
  /\ Len(ReaderValues) % ReaderRecordValues = 0
ReaderSamples == Len(ReaderValues) \div ReaderRecordValues
SampleTime(i) == ReaderValues[i * ReaderRecordValues + 1]
SamplePositions(i) ==
  [b \in Bodies |-> ReaderValues[i * ReaderRecordValues + 1 + b]]
FirstTime == SampleTime(0)
LastTime == SampleTime(ReaderSamples - 1)
\* a sample has been returned: its time and its positions are read
Returned == rpc \in {"houses", "print", "done"}
ReturnedSample(i) ==
  Returned /\ timestamp = SampleTime(i) /\ rpositions = SamplePositions(i)

\* C13: on a uniform kernel of interval I, a query for t inside
\* [base, base + duration] returns a sample of the kernel whose timestamp
\* differs from t by at most I/2.
C13_NearestSampleBound ==
  (ReaderWhole /\ target_jd >= FirstTime /\ target_jd <= LastTime) =>
    /\ rpc = "failed" => house_file # "complete"
    /\ Returned =>
         /\ 2 * Abs(timestamp - target_jd) <= sample_interval
         /\ \E i \in 0..(ReaderSamples - 1) : ReturnedSample(i)

\* C13 witness: a query strictly between the samples of a kernel of three
\* records has returned the later of its two neighbours.
C13_Witness ==
  /\ ReaderWhole /\ ReaderSamples = MaxSamples
  /\ rpc = "done"
  /\ target_jd > FirstTime /\ target_jd < LastTime
  /\ timestamp > target_jd
  /\ ReturnedSample(ReaderSamples - 1)

\* C14: on a readable kernel of at least one record a query fails for no
\* timestamp: t below base returns the first sample, t above base + duration
\* the last one.
C14_ClampsOutOfRange ==
  (ReaderWhole /\ house_file = "complete") =>
    /\ rpc # "failed"
    /\ (Returned /\ target_jd < FirstTime) => ReturnedSample(0)
    /\ (Returned /\ target_jd > LastTime) => ReturnedSample(ReaderSamples - 1)

\* C14 witness: a query beyond the last record of a kernel of several records
\* has returned, and another record lies between.
C14_Witness ==
  /\ ReaderWhole /\ ReaderSamples = MaxSamples /\ house_file = "complete"
  /\ rpc = "done"
  /\ target_jd = LastTime + Margin
  /\ ReturnedSample(ReaderSamples - 1)

\* the value of body b that record i decodes to under replicate-forward: its
\* own when the file holds it, else the one of the record before, else 0
RECURSIVE ReplicateForward(_, _)
ReplicateForward(i, b) ==
  IF i * ReaderRecordValues + 1 + b <= Len(ReaderValues)
  THEN ReaderValues[i * ReaderRecordValues + 1 + b]
  ELSE IF i = 0 THEN 0 ELSE ReplicateForward(i - 1, b)

\* C15 (as stated): decoding a record that the end of the file cuts short
\* raises no error, and each body's value is the last one decoded for that
\* same body in an earlier record, or 0 when there is none.
C15_TruncatedDecodeReplicates ==
  (kernel.exists /\ ReaderValues # <<>> /\ house_file = "complete") =>
    /\ rpc # "failed"
    /\ Returned =>
         \A b \in Bodies :
           rpositions[b] = ReplicateForward(closest_offset \div ReaderStride, b)

\* the expander has got past its checks: its output exists or is being made
ExpandAccepted == epc \in {"create", "hour", "minute", "finish", "done"}

\* C16 (as stated): a source kernel of fewer than 2 samples, or whose data
\* size is no multiple of its record size, makes expand fail with a
\* FormatError (here: fail in any way), and no output file has been created
\* when it fails.
C16_RejectsShortOrRagged ==
  (/\ kernel.exists
   /\ \/ SourceSamples < 2
      \/ (FileSize(kernel.data) - 8) % (8 * src_bodies) # 0)
  => /\ ~ExpandAccepted
     /\ minute_kernel = NoFile

\* the record of source hour h as the expander counts records, and the hour
\* an index clamp turns h into
StoredHour(h) ==
  [i \in 1..Len(first_hour) |-> SourceValues[h * Len(first_hour) + i]]
ClampHour(h) ==
  IF h < 0 THEN 0 ELSE IF h > total_hours - 1 THEN total_hours - 1 ELSE h

\* C17 (as stated): the control values of every interval are positions
\* stored in the source, with an index clamp at both ends: p0 of the first
\* interval is sample 0, and p2, p3 past the end are the final sample.
C17_ControlValuesClamped ==
  epc = "minute" =>
    /\ h0 = StoredHour(ClampHour(hour - 1))
    /\ h1 = StoredHour(hour)
    /\ h2 = StoredHour(ClampHour(hour + 1))
    /\ h3 = StoredHour(ClampHour(hour + 2))

\* the header of the kernel format: magic "ZNTH", then the version byte
HeaderWellFormed(data) ==
  /\ Len(data) >= 2
  /\ data[1].k = "magic" /\ data[1].v = "ZNTH"
  /\ data[2].k = "u8" /\ data[2].v = 1

\* C20 (as stated): a kernel file whose header is malformed (its first bytes
\* are not the magic "ZNTH" and a known version) is rejected as a whole: no
\* sample of it is decoded and nothing is produced from it.
C20_MalformedHeaderRejected ==
  (kernel.exists /\ ~HeaderWellFormed(kernel.data)) =>
    /\ ~ExpandAccepted
    /\ first_hour = <<>>
    /\ minute_kernel = NoFile

\* the time of interval j of write(), and the value a replicate-forward
\* writer stores for body b there: the one computed at that time, or after a
\* failed call the one stored for the same body the time before
IntervalTime(j) == start_jd + j * to_jd(precision)
RECURSIVE ReplicatedValue(_, _)
ReplicatedValue(j, b) ==
  IF j < 0 THEN centisec(base_positions[b])
  ELSE IF <<IntervalTime(j), b>> \notin oracleFailures
       THEN encode(OracleAngle(IntervalTime(j), b))
       ELSE ReplicatedValue(j - 1, b)

\* C18 (as stated): a generation that goes on after a failed oracle call
\* stores, for the failing (timestamp, body), the value last computed for
\* that body; every record keeps its body_count values; the file is
\* published.
C18_LenientReplicates ==
  wpc = "done" =>
    /\ Len(kernel.data) =
         HeaderFields + (1 + Intervals(time_delta, precision)) * NumBodies
    /\ \A j \in 0..(Intervals(time_delta, precision) - 1) : \A b \in Bodies :
         kernel.data[HeaderFields + (1 + j) * NumBodies + b]
           = Field("u32", ReplicatedValue(j, b))

\* C19 (as stated): the calls into the oracle are serialized: no two calls
\* of swe_houses are in flight at the same time, however many threads the
\* pool has.
C19_OracleCallsSerialized ==
  Cardinality(Calling) <= 1

\* C22: expansion never changes its input: whether expand is running, has
\* finished or has failed at any step, the source kernel holds what it held
\* before, and the derived kernel goes to another file.
C22_SourceUntouched ==
  /\ kernel = published0
  /\ minute_kernel.exists => OutputPath # SourcePath

\* C22 witness: expand failed after it had written records to its output,
\* for a source kernel that holds positions.
C22_Witness ==
  /\ epc = "failed"
  /\ kernel.exists /\ SourceValues # <<>>
  /\ Len(FineValues) > Len(SourceValues)
  /\ kernel = published0

\* value(t) of the delta form at t = k/n, over InterpDen(n): the coefficients
\* are built from the wrapped deltas d0, d2, d3 alone and p1 is the constant
\* term
DeltaForm(pos0, pos1, pos2, pos3, k, n) ==
  LET d0 == WrapDelta(pos0 - pos1)
      d2 == WrapDelta(pos2 - pos1)
      d3 == WrapDelta(pos3 - pos1)
  IN ((-d0 + 3 * d2 + d3) * k * k * k
      + (2 * d0 - 5 * d2 - d3) * k * k * n
      + (-d0 + d2) * k * n * n
      + 2 * pos1 * n * n * n) % (InterpFull * InterpDen(n))

\* C23 (as stated): cubic_interpolate returns normalize(a*t^3 + b*t^2 + c*t +
\* p1) with a = -0.5*d0 + 1.5*d2 + 0.5*d3, b = d0 - 2.5*d2 - 0.5*d3 and
\* c = -0.5*d0 + 0.5*d2: p1 enters through the constant term only.
C23_DeltaCoefficients ==
  ipc = "value" =>
    iresult = DeltaForm(ipos[1], ipos[2], ipos[3], ipos[4], ik - 1, InterpSteps)

\* the three raw deltas of the control values from p1
RawDeltas == {ipos[1] - ipos[2], ipos[3] - ipos[2], ipos[4] - ipos[2]}

\* C24 (as stated): each delta after the circular adjustment lies in
\* (-180, 180]; a raw delta of exactly -180 becomes +180.
C24_DeltasHalfOpen ==
  ipc = "value" =>
    \A raw \in RawDeltas :
      /\ WrapDelta(raw) > -InterpHalf /\ WrapDelta(raw) <= InterpHalf
      /\ raw = -InterpHalf => WrapDelta(raw) = InterpHalf

\* C24 (amended): each delta after the circular adjustment lies in
\* [-180, 180] and is the raw delta up to a whole turn; a raw delta of
\* exactly -180 stays -180.
C24_DeltasClosed ==
  ipc = "value" =>
    \A raw \in RawDeltas :
      /\ WrapDelta(raw) >= -InterpHalf /\ WrapDelta(raw) <= InterpHalf
      /\ (WrapDelta(raw) - raw) % InterpFull = 0
      /\ raw = -InterpHalf => WrapDelta(raw) = -InterpHalf

\* C24 witness: values were interpolated where p0 lies exactly half a circle
\* below p1 and p2 more than half a circle below it.
C24_Witness ==
  /\ ipc = "value"
  /\ ipos[1] - ipos[2] = -InterpHalf
  /\ ipos[3] - ipos[2] < -InterpHalf
  /\ WrapDelta(ipos[1] - ipos[2]) = -InterpHalf

\* ---- C25
\* the timestamps find_closest_time can read: one every ReaderStride bytes
ScanRecords == (Len(ValuesOf(kernel.data)) + NumBodies) \div ReaderRecordValues
ScanTimeAt(i) == ValuesOf(kernel.data)[i * ReaderRecordValues + 1]
ScanEnded == rpc \notin {"new", "scan"}
ScanMinimalFirst ==
  (ScanEnded /\ ScanRecords > 0) =>
    \E i \in 0..(ScanRecords - 1) :
      /\ closest_offset = i * ReaderStride
      /\ \A j \in 0..(ScanRecords - 1) :
           /\ Abs(ScanTimeAt(i) - target_jd) <= Abs(ScanTimeAt(j) - target_jd)
           /\ j < i =>
                Abs(ScanTimeAt(i) - target_jd) < Abs(ScanTimeAt(j) - target_jd)

\* C25: on any kernel of records (timestamp, then the positions)
\* find_closest_time terminates, and it returns the offset of a record whose
\* timestamp can be read and is nearest to the target among all records of the
\* file; of several records equally near it returns the one of smallest offset.
C25_ScanFindsFirstNearest == [](ScanMinimalFirst) /\ <>(ScanEnded)

\* C25 witness: the scan ended on a kernel of unsorted timestamps where the
\* record after the returned one is as near to the target, on its other side,
\* and the record before it is farther away.
C25_Witness ==
  /\ ScanEnded /\ ScanRecords = MaxSamples
  /\ closest_offset = ReaderStride
  /\ ScanTimeAt(1) > ScanTimeAt(2)
  /\ Abs(ScanTimeAt(2) - target_jd) = Abs(ScanTimeAt(1) - target_jd)

\* ---- C26
\* find_closest_time has run to its end
LocatorRan == rpc \in {"timestamp", "positions", "houses", "print", "done"}
ScanIndex == closest_offset \div ReaderStride
DirectIndex ==
  direct_index(target_jd, FirstTime, sample_interval, ReaderSamples)
AtMidpoint ==
  \E i \in 0..(ReaderSamples - 2) :
    2 * target_jd = SampleTime(i) + SampleTime(i + 1)

\* C26 (as stated): on a uniform kernel the direct index
\* round((t - base)/interval), clamped, is the index the linear scan finds, for
\* every query time t, also for t exactly midway between two samples.
C26_LocatorsAgree ==
  (ReaderWhole /\ LocatorRan) => ScanIndex = DirectIndex

\* C26 (amended): the two agree for every t that is not exactly midway between
\* two samples; midway between samples i and i+1 the direct index is i+1 and
\* the linear scan finds i.
C26_LocatorsAgreeOffMidpoints ==
  (ReaderWhole /\ LocatorRan) =>
    IF AtMidpoint THEN DirectIndex = ScanIndex + 1 /\ ScanIndex < ReaderSamples - 1
    ELSE DirectIndex = ScanIndex

\* C26 witness: the scan ran over a kernel of three samples for a time midway
\* between the second and the third, and found the second.
C26_Witness ==
  /\ ReaderWhole /\ LocatorRan /\ ReaderSamples = MaxSamples
  /\ 2 * target_jd = SampleTime(MaxSamples - 2) + SampleTime(MaxSamples - 1)
  /\ ScanIndex = MaxSamples - 2

\* ---- C27
\* what ZenithKernel::new leaves in slot b: the normalised longitude, or 0.0
\* where the oracle failed
SingleComputed(b) ==
  IF <<start_jd, b>> \in oracleFailures THEN 0
  ELSE rem_euclid(OracleAngle(start_jd, b))

\* C27: a kernel written by the single-sample writer and then read by
\* ParabolaReader yields, for every target time, the written timestamp and the
\* written positions in their order; a position the oracle failed to compute
\* reads back as 0.  The reader fails only for want of houses.kernel.
C27_SingleSampleRoundTrip ==
  /\ Returned => /\ timestamp = start_jd
                 /\ rpositions = [b \in Bodies |-> SingleComputed(b)]
  /\ rpc = "failed" => house_file # "complete"

\* C27 witness: the reader printed a kernel, written over an older file, in
\* which the oracle failed for the first body and not for the last, for a
\* target time other than the written one.
C27_Witness ==
  /\ rpc = "done" /\ published0.exists
  /\ target_jd # start_jd
  /\ <<start_jd, 1>> \in oracleFailures
  /\ <<start_jd, NumBodies>> \notin oracleFailures
  /\ rpositions[1] = 0 /\ rpositions[NumBodies] # 0

\* ---- C21
\* the name by which the tables call a body
NameOfBody(body) ==
  CASE body = "SE_SUN" -> "Sun" [] body = "SE_MOON" -> "Moon"
    [] body = "SE_MERCURY" -> "Mercury" [] body = "SE_VENUS" -> "Venus"
    [] body = "SE_MARS" -> "Mars" [] body = "SE_JUPITER" -> "Jupiter"
    [] body = "SE_SATURN" -> "Saturn" [] body = "SE_URANUS" -> "Uranus"
    [] body = "SE_NEPTUNE" -> "Neptune" [] body = "SE_PLUTO" -> "Pluto"
    [] body = "SE_CHIRON" -> "Chiron" [] body = "SE_TRUE_NODE" -> "True Node"
    [] body = "SE_MEAN_APOG" -> "Mean Apogee" [] body = "SE_VESTA" -> "Vesta"
    [] body = "SE_JUNO" -> "Juno" [] body = "SE_CERES" -> "Ceres"
    [] body = "SE_PALLAS" -> "Pallas" [] body = "SE_ASC" -> "ASC"
    [] body = "SE_ARMC" -> "ARMC" [] body = "SE_AST_OFFSET + 5550" -> "15550"

\* C21: for every record slot i the body whose position the writer stores at
\* slot i is the body whose name the reader attaches to slot i, and the body
\* the reader queries for comparison at index i.
C21_BodyOrderShared ==
  \A r \in 1..Len(printed) :
    /\ printed[r].name = NameOfBody(WriterBodies[printed[r].slot + 1])
    /\ printed[r].body = WriterBodies[printed[r].slot + 1]
    /\ printed[r].kernel_pos = base_positions[printed[r].slot + 1]

\* ---- C28
\* the ayanamsa the writer stored for a mode
WrittenAyanamsa(mode) == sid_ayanamsa[ModeNumber(mode)]

\* C28: the three ayanamsas the sidereal writer appends after the positions
\* are the values the reader loads as ayanamsa_values, in the same order, and
\* in a sidereal mode a row shows the position less the ayanamsa written for
\* that mode.
C28_AyanamsaRoundTrip ==
  rpc \in {"rows", "done"} =>
    /\ ayanamsa_values = sid_ayanamsa
    /\ \A r \in 1..Len(printed) :
         zodiac_mode # "Tropical" =>
           printed[r].shown =
             rem_euclid(printed[r].swe_pos - WrittenAyanamsa(zodiac_mode))

\* ---- C29
\* C29: for the house system at hand deduplicate_patterns keeps one
\* (location, pattern) entry for every location it has gone through, in the
\* original order; the pattern assigned to a location differs from the one
\* computed for it by at most 1 in each offset and is one of the unique
\* patterns kept; there are never more unique patterns than locations.
C29_DedupKeepsEveryLocation ==
  dpc = "drain" =>
    /\ Len(deduplicated) + Len(pending) = locations
    /\ \A i \in 1..Len(deduplicated) :
         /\ deduplicated[i][1] = original[i][1]
         /\ \A k \in 1..Len(original[i][2]) :
              Abs(deduplicated[i][2][k] - original[i][2][k]) <= 1
         /\ deduplicated[i][2] \in unique_patterns
    /\ Cardinality(unique_patterns) <= Len(deduplicated)
    /\ Cardinality(unique_patterns) <= locations

\* C29 witness: every location of a system has been gone through, one of them
\* was given the pattern of another in place of its own, and two unique
\* patterns are kept.
C29_Witness ==
  /\ dpc = "drain" /\ pending = <<>> /\ locations = MaxLocations
  /\ \E i \in 1..Len(deduplicated) : deduplicated[i][2] # original[i][2]
  /\ Cardinality(unique_patterns) = 2

\* ---- C30
\* C30: load_cities never aborts on the content of a line, a line of exactly
\* 5 fields included; and when it returns, the locations are in
\* non-decreasing order of packed_coords.
C30_LoadCitiesNeverAborts ==
  /\ lpc # "panicked"
  /\ lpc = "loaded" =>
       \A i \in 1..(Len(self_locations) - 1) :
         self_locations[i].packed_coords <= self_locations[i + 1].packed_coords

====
